---- MODULE Spec2Model ----
(***************************************************************************)
(* Model of src/streamlit_app.py: the Arabic-countries GDP dashboard.      *)
(*                                                                         *)
(* The script is run once when the session starts (widgets at their        *)
(* default values) and once more, top to bottom, every time the user moves *)
(* the year slider or changes the country multiselect.  A state of the     *)
(* model is the state at the end of one run of the script: the cached      *)
(* dataset, the widget values, and what the three sections rendered.       *)
(*                                                                         *)
(* Values.  A missing value (pandas NaN) is the number NaN below; every    *)
(* comparison with it is false, as in pandas.  A GDP is a natural number   *)
(* of half-billions (5e8), so that the "/ 1e9" and the ",.0f" format of    *)
(* the metrics do real work; all GDPs are below 8 units, which keeps every *)
(* quotient and every formatted value exact in binary floating point.      *)
(* The raw Year cell of the CSV file is a sequence of characters.          *)
(***************************************************************************)
EXTENDS Integers, Sequences, FiniteSets, TLC

VARIABLES
    csv,                \* rows of data/gdp_data.csv, as read by read_csv
    gdp_df,             \* the dataset returned by get_gdp_data (cached)
    from_year,          \* the slider's lower value
    to_year,            \* the slider's upper value
    selected_countries, \* the multiselect's value: codes in selection order
    filtered_gdp_df,    \* the frame of the chart section after it ran
    chart_shown,        \* st.altair_chart was called in this run
    chart_warning,      \* the chart section's st.warning was called
    metrics_warning,    \* the metrics section's st.warning was called
    metrics,            \* the st.metric widgets emitted, in order
    news_warning,       \* the news section's st.warning was called
    news_links          \* the country names a link was emitted for, in order

vars == <<csv, gdp_df, from_year, to_year, selected_countries, filtered_gdp_df,
          chart_shown, chart_warning, metrics_warning, metrics, news_warning,
          news_links>>

-----------------------------------------------------------------------------
(* Bounds and the universe of datasets *)

MaxRows == 2

NaN == -1

Codes == {"MAR", "QAT"}

CountryName(code) == IF code = "MAR" THEN "Morocco" ELSE "Qatar"

\* Raw Year cells: two years and one cell that is not a number.
RawYears == { <<"2","0","0","0">>, <<"2","0","0","1">>, <<"2","0","0","x">> }

GDPValues == {NaN, 0, 1, 4}

\* A row of the file: the country name goes with the country code.
RawRows == { [Name |-> CountryName(c), Code |-> c, Year |-> y, GDP |-> g] :
               c \in Codes, y \in RawYears, g \in GDPValues }

Range(s) == { s[i] : i \in DOMAIN s }

SeqsUpTo(S, n) == UNION { [1..k -> S] : k \in 0..n }

InjectiveSeqs(S) == { s \in SeqsUpTo(S, Cardinality(S)) :
                        \A i, j \in DOMAIN s : s[i] = s[j] => i = j }

-----------------------------------------------------------------------------
(* pandas helpers *)

DigitValue == ("0" :> 0) @@ ("1" :> 1) @@ ("2" :> 2) @@ ("3" :> 3) @@ ("4" :> 4)
              @@ ("5" :> 5) @@ ("6" :> 6) @@ ("7" :> 7) @@ ("8" :> 8) @@ ("9" :> 9)

RECURSIVE Decimal(_)
Decimal(chars) ==
    IF chars = <<>> THEN 0
    ELSE 10 * Decimal(SubSeq(chars, 1, Len(chars) - 1)) + DigitValue[chars[Len(chars)]]

\* pd.to_numeric(cell, errors='coerce') on a raw cell
to_numeric(chars) ==
    IF chars # <<>> /\ \A i \in DOMAIN chars : chars[i] \in DOMAIN DigitValue
    THEN Decimal(chars)
    ELSE NaN

\* pandas comparisons: False whenever the left side is missing
GeStrict(x, y) == x # NaN /\ x > y
Ge(x, y) == x # NaN /\ x >= y
LeStrict(x, y) == x # NaN /\ x < y
Le(x, y) == x # NaN /\ x <= y
Eq(x, y) == x # NaN /\ x = y

isin_or_all(code, codes) == codes = <<>> \/ \E i \in DOMAIN codes : codes[i] = code
isin(code, codes) == \E i \in DOMAIN codes : codes[i] = code

dropna(df) == SelectSeq(df, LAMBDA r : r.GDP # NaN)

\* pd.to_numeric(column, errors='coerce') on a column that is numeric already:
\* numbers are kept and a missing value stays missing
to_numeric_column(df, f) == [i \in DOMAIN df |-> [df[i] EXCEPT ![f] = df[i][f]]]

\* the distinct values of a column, in order of first appearance
RECURSIVE unique(_)
unique(col) ==
    IF col = <<>> THEN <<>>
    ELSE LET init == unique(SubSeq(col, 1, Len(col) - 1))
             x    == col[Len(col)]
         IN IF \E i \in DOMAIN init : init[i] = x THEN init ELSE Append(init, x)

Column(df, f) == [i \in DOMAIN df |-> df[i][f]]

\* insertion of a row in a frame sorted by Year
RECURSIVE InsertByYear(_, _)
InsertByYear(sorted, r) ==
    IF sorted = <<>> THEN <<r>>
    ELSE IF r.Year < Head(sorted).Year THEN <<r>> \o sorted
    ELSE <<Head(sorted)>> \o InsertByYear(Tail(sorted), r)

sort_values_file_order(df) == df
\* df.sort_values('Year') on a frame without missing years
RECURSIVE sort_values(_)
sort_values(df) ==
    IF df = <<>> THEN <<>>
    ELSE InsertByYear(sort_values(SubSeq(df, 1, Len(df) - 1)), df[Len(df)])

-----------------------------------------------------------------------------
(* get_gdp_data: the Year column is coerced, the four columns are kept.    *)
(* The amount column is modelled under its name after the rename, GDP.     *)

get_gdp_data(file) ==
    [i \in DOMAIN file |->
        [Name |-> file[i].Name, Code |-> file[i].Code,
         Year |-> to_numeric(file[i].Year), GDP |-> file[i].GDP]]

\* Series.min() and Series.max() skip missing values
PresentYears(df) == { df[i].Year : i \in DOMAIN df } \ {NaN}
min_value(df) == CHOOSE y \in PresentYears(df) : \A z \in PresentYears(df) : y <= z
max_value(df) == CHOOSE y \in PresentYears(df) : \A z \in PresentYears(df) : y >= z

\* the options of the multiselect
countries(df) == unique(Column(df, "Code"))

\* the default value of the multiselect, within the codes of the model
DefaultCountries ==
    SelectSeq(<<"MAR", "DZA", "LBN", "TUN", "EGY">>, LAMBDA c : c \in Codes)

-----------------------------------------------------------------------------
(* The chart section *)

Filter(df, from, to, selected) ==
    SelectSeq(df, LAMBDA r : /\ isin(r.Code, selected)
                             /\ Ge(r.Year, from)
                             /\ Le(r.Year, to))

ChartSectionInPlace(df, from, to, selected) ==
    LET filtered == Filter(df, from, to, selected)
    IN IF filtered # <<>>
       THEN [gdp_df          |-> dropna(df),
             filtered_gdp_df |-> dropna(filtered),
             chart_shown     |-> TRUE,
             chart_warning   |-> FALSE]
       ELSE [gdp_df          |-> df,
             filtered_gdp_df |-> filtered,
             chart_shown     |-> FALSE,
             chart_warning   |-> TRUE]
\* the frame is rebound to the result of dropna, a new frame whose Year and
\* GDP columns are then assigned: gdp_df itself is not written
ChartSection(df, from, to, selected) ==
    LET filtered == Filter(df, from, to, selected)
    IN IF filtered # <<>>
       THEN [gdp_df          |-> df,
             filtered_gdp_df |-> to_numeric_column(
                                   to_numeric_column(dropna(filtered), "Year"), "GDP"),
             chart_shown     |-> TRUE,
             chart_warning   |-> FALSE]
       ELSE [gdp_df          |-> df,
             filtered_gdp_df |-> filtered,
             chart_shown     |-> FALSE,
             chart_warning   |-> TRUE]

-----------------------------------------------------------------------------
(* The metrics section *)

CountryRows(df, code, from, to) ==
    SelectSeq(df, LAMBDA r : /\ r.Code = code
                             /\ Ge(r.Year, from)
                             /\ Le(r.Year, to))

has_data_at_to_year(df, from, to, selected) ==
    \E i \in DOMAIN selected :
        SelectSeq(dropna(CountryRows(df, selected[i], from, to)),
                  LAMBDA r : Eq(r.Year, to)) # <<>>
has_data(df, from, to, selected) ==
    \E i \in DOMAIN selected :
        dropna(CountryRows(df, selected[i], from, to)) # <<>>

RoundHalfEven(n, d) ==
    LET q == n \div d
        r == n % d
    IN IF 2 * r < d THEN q
       ELSE IF 2 * r > d THEN q + 1
       ELSE IF q % 2 = 0 THEN q ELSE q + 1

\* f'{last_gdp:,.0f}B' with last_gdp = last_gdp_raw / 1e9, a GDP unit being 5e8
FormatValue(last_gdp_raw) == [text |-> "B", n |-> RoundHalfEven(last_gdp_raw, 2)]

FormatGrowthChange(last_gdp_raw, first_gdp_raw) ==
    IF first_gdp_raw = 0
    THEN [text |-> IF last_gdp_raw = 0 THEN "nanx" ELSE "infx", n |-> 0]
    ELSE [text |-> "x",
          n |-> RoundHalfEven(100 * (last_gdp_raw - first_gdp_raw), first_gdp_raw)]
\* f'{last_gdp / first_gdp:,.2f}x' on numpy floats: x/0 is inf, 0/0 is nan
FormatGrowth(last_gdp_raw, first_gdp_raw) ==
    IF first_gdp_raw = 0
    THEN [text |-> IF last_gdp_raw = 0 THEN "nanx" ELSE "infx", n |-> 0]
    ELSE [text |-> "x", n |-> RoundHalfEven(100 * last_gdp_raw, first_gdp_raw)]

NotAvailable == [text |-> "n/a", n |-> 0]

NAMetric(country) ==
    [label |-> country, value |-> NotAvailable, delta |-> NotAvailable,
     delta_color |-> "off", first_gdp_raw |-> NaN, last_gdp_raw |-> NaN]

exact_year_latest(country_data, to) == <<country_data[Len(country_data)]>>
\* country_data[country_data['Year'] == to_year]
exact_year_data(country_data, to) == SelectSeq(country_data, LAMBDA r : Eq(r.Year, to))

\* one pass of the loop body: the widget it emits
Metric(df, from, to, country) ==
    LET country_data == sort_values(dropna(CountryRows(df, country, from, to)))
    IN IF country_data = <<>> THEN NAMetric(country)
       ELSE LET first_gdp_raw   == country_data[1].GDP
                exact           == exact_year_data(country_data, to)
            IN IF exact = <<>> THEN NAMetric(country)
               ELSE LET last_gdp_raw == exact[1].GDP
                    IN [label |-> country,
                        value |-> FormatValue(last_gdp_raw),
                        delta |-> FormatGrowth(last_gdp_raw, first_gdp_raw),
                        delta_color |-> "normal",
                        first_gdp_raw |-> first_gdp_raw,
                        last_gdp_raw |-> last_gdp_raw]

RECURSIVE MetricsLoopBreak(_, _, _, _, _)
MetricsLoopBreak(df, from, to, selected, i) ==
    IF i > Len(selected) THEN <<>>
    ELSE LET m == Metric(df, from, to, selected[i])
         IN IF m.value = NotAvailable THEN <<m>>
            ELSE <<m>> \o MetricsLoopBreak(df, from, to, selected, i + 1)
\* for i, country in enumerate(selected_countries), from position i on; both n/a
\* branches end with `continue`, so every pass is followed by the next one
RECURSIVE MetricsLoop(_, _, _, _, _)
MetricsLoop(df, from, to, selected, i) ==
    IF i > Len(selected) THEN <<>>
    ELSE <<Metric(df, from, to, selected[i])>>
         \o MetricsLoop(df, from, to, selected, i + 1)

MetricsSection(df, from, to, selected) ==
    [metrics_warning |-> ~has_data(df, from, to, selected),
     metrics         |-> MetricsLoop(df, from, to, selected, 1)]

-----------------------------------------------------------------------------
(* The news section *)

selected_country_names(df, selected) ==
    unique(Column(SelectSeq(df, LAMBDA r : isin(r.Code, selected)), "Name"))

NewsSection(df, selected) ==
    LET names == selected_country_names(df, selected)
    IN [news_warning |-> Len(names) = 0,
        news_links   |-> names]

-----------------------------------------------------------------------------
(* One run of the script with the widgets at (from, to, selected) *)

RunScript(from, to, selected) ==
    LET chart == ChartSection(gdp_df, from, to, selected)
        df    == chart.gdp_df
        mets  == MetricsSection(df, from, to, selected)
        news  == NewsSection(df, selected)
    IN /\ gdp_df' = df
       /\ from_year' = from
       /\ to_year' = to
       /\ selected_countries' = selected
       /\ filtered_gdp_df' = chart.filtered_gdp_df
       /\ chart_shown' = chart.chart_shown
       /\ chart_warning' = chart.chart_warning
       /\ metrics_warning' = mets.metrics_warning
       /\ metrics' = mets.metrics
       /\ news_warning' = news.news_warning
       /\ news_links' = news.news_links
       /\ UNCHANGED csv

\* A file the program starts on: each (country, year) has at most one row,
\* the slider has a year to show, the default countries are options.
ValidFile(file) ==
    LET df == get_gdp_data(file)
    IN /\ \A i, j \in DOMAIN df :
            (df[i].Code = df[j].Code /\ Eq(df[i].Year, df[j].Year)) => i = j
       /\ PresentYears(df) # {}
       /\ \A k \in DOMAIN DefaultCountries :
            isin(DefaultCountries[k], countries(df))

\* The first run: the slider at the full range, the multiselect at its default.
Init ==
    /\ csv \in { f \in SeqsUpTo(RawRows, MaxRows) : ValidFile(f) }
    /\ gdp_df = get_gdp_data(csv)
    /\ from_year = min_value(gdp_df)
    /\ to_year = max_value(gdp_df)
    /\ selected_countries = DefaultCountries
    /\ LET chart == ChartSection(gdp_df, from_year, to_year, selected_countries)
           mets  == MetricsSection(gdp_df, from_year, to_year, selected_countries)
           news  == NewsSection(gdp_df, selected_countries)
       IN /\ filtered_gdp_df = chart.filtered_gdp_df
          /\ chart_shown = chart.chart_shown
          /\ chart_warning = chart.chart_warning
          /\ metrics_warning = mets.metrics_warning
          /\ metrics = mets.metrics
          /\ news_warning = news.news_warning
          /\ news_links = news.news_links

\* The user moves the slider: the script runs again.  The widget offers the
\* years between min_value and max_value; pairs with from > to are included,
\* the filter being defined on them too.
ChangeYears ==
    \E from, to \in min_value(gdp_df)..max_value(gdp_df) :
        /\ <<from, to>> # <<from_year, to_year>>
        /\ RunScript(from, to, selected_countries)

\* The user changes the multiselect: the script runs again.
ChangeCountries ==
    \E selected \in InjectiveSeqs(Range(countries(gdp_df))) :
        /\ selected # selected_countries
        /\ RunScript(from_year, to_year, selected)

Next == ChangeYears \/ ChangeCountries

Spec == Init /\ [][Next]_vars

-----------------------------------------------------------------------------
(* Vocabulary of the claims, stated on the dataset and not on the sections *)

Present(x) == x # NaN

InYearRange(r) == Present(r.Year) /\ from_year <= r.Year /\ r.Year <= to_year

Selected(code) == code \in Range(selected_countries)

\* the rows of gdp_df whose position is in keep, in file order
RowsAt(keep) ==
    [k \in 1..Cardinality(keep) |->
        gdp_df[CHOOSE i \in keep : Cardinality({ j \in keep : j <= i }) = k]]

\* the rows of a country with a GDP, inside the year range
InRangeData(code) ==
    { r \in Range(gdp_df) : r.Code = code /\ Present(r.GDP) /\ InYearRange(r) }

\* the rows of a country with a GDP, at the last year of the range
AtToYear(code) ==
    { r \in Range(gdp_df) : r.Code = code /\ Present(r.GDP) /\ r.Year = to_year }

IsNA(m) == m.value = NotAvailable /\ m.delta = NotAvailable

OneWidgetPerCountry ==
    /\ Len(metrics) = Len(selected_countries)
    /\ \A i \in DOMAIN metrics : metrics[i].label = selected_countries[i]

-----------------------------------------------------------------------------
\* C1: the frame used for charting is exactly the rows of the dataset whose
\* code is selected, whose year is present and within [from_year, to_year]
\* (both inclusive) and whose GDP is present, in file order; it is empty when
\* from_year > to_year.
C1_FilterContract ==
    /\ filtered_gdp_df =
          RowsAt({ i \in DOMAIN gdp_df : /\ Selected(gdp_df[i].Code)
                                         /\ InYearRange(gdp_df[i])
                                         /\ Present(gdp_df[i].GDP) })
    /\ from_year > to_year => filtered_gdp_df = <<>>

\* a row is kept and a row that matches the codes and the years is dropped
\* for its missing GDP
C1_Witness ==
    /\ Len(filtered_gdp_df) = 1
    /\ from_year < to_year
    /\ \E i \in DOMAIN gdp_df : /\ Selected(gdp_df[i].Code)
                                /\ InYearRange(gdp_df[i])
                                /\ ~Present(gdp_df[i].GDP)

\* C2: an available metric has first_value = the GDP of the earliest in-range
\* row of the country, last_value = the GDP of its row at to_year exactly, and
\* shows last_value in billions and last_value / first_value to two decimals.
C2_MetricValues ==
    /\ OneWidgetPerCountry
    /\ \A i \in DOMAIN metrics :
         LET m == metrics[i]
             S == InRangeData(m.label)
         IN ~IsNA(m) =>
              /\ S # {}
              /\ AtToYear(m.label) # {}
              /\ \E r \in S : /\ \A q \in S : r.Year <= q.Year
                              /\ m.first_gdp_raw = r.GDP
              /\ \A r \in AtToYear(m.label) : m.last_gdp_raw = r.GDP
              /\ m.value.text = "B"
              /\ 2 * m.value.n - m.last_gdp_raw \in -1..1
              /\ m.first_gdp_raw > 0 =>
                   /\ m.delta.text = "x"
                   /\ 2 * (m.delta.n * m.first_gdp_raw - 100 * m.last_gdp_raw)
                         \in (0 - m.first_gdp_raw)..m.first_gdp_raw
              /\ m.first_gdp_raw = 0 =>
                   m.delta.text = IF m.last_gdp_raw = 0 THEN "nanx" ELSE "infx"

\* the example of the claim: the later year comes first in the file, the GDP
\* goes from 1 to 4 units and the widget shows 2B and 4.00x
C2_Witness ==
    /\ Len(gdp_df) = 2
    /\ gdp_df[1].Year > gdp_df[2].Year
    /\ \E i \in DOMAIN metrics :
         /\ metrics[i].first_gdp_raw = 1
         /\ metrics[i].last_gdp_raw = 4
         /\ metrics[i].value = [text |-> "B", n |-> 2]
         /\ metrics[i].delta = [text |-> "x", n |-> 400]

\* C3: a selected country without a row with a GDP at to_year exactly gets
\* 'n/a' for value and delta, whatever rows it has earlier in the range.
C3_NoExactYearIsNA ==
    /\ OneWidgetPerCountry
    /\ \A i \in DOMAIN metrics :
         AtToYear(selected_countries[i]) = {} => IsNA(metrics[i])

\* a country with a GDP earlier in the range and none at to_year
C3_Witness ==
    \E i \in DOMAIN metrics :
        /\ AtToYear(selected_countries[i]) = {}
        /\ \E r \in InRangeData(selected_countries[i]) : r.Year < to_year
        /\ IsNA(metrics[i])

\* C4: when no row matches the selected codes and the year range with a GDP
\* present, the chart section shows its notice and renders no chart.
C4_EmptyShowsNotice ==
    (\A r \in Range(gdp_df) :
        ~(Selected(r.Code) /\ InYearRange(r) /\ Present(r.GDP)))
    => (chart_warning /\ ~chart_shown)

\* C5 as stated: at the full year range with every code selected, the frame is
\* every row of the dataset with a GDP present.
C5_Original ==
    (/\ from_year = min_value(gdp_df)
     /\ to_year = max_value(gdp_df)
     /\ \A r \in Range(gdp_df) : Selected(r.Code))
    => filtered_gdp_df = RowsAt({ i \in DOMAIN gdp_df : Present(gdp_df[i].GDP) })

\* C5 amended: at the full year range with every code selected, the frame is
\* every row of the dataset with a GDP present and a year present.
C5_FullRangeIdentity ==
    (/\ from_year = min_value(gdp_df)
     /\ to_year = max_value(gdp_df)
     /\ \A r \in Range(gdp_df) : Selected(r.Code))
    => filtered_gdp_df =
         RowsAt({ i \in DOMAIN gdp_df : /\ Present(gdp_df[i].GDP)
                                        /\ Present(gdp_df[i].Year) })

\* full range, every code selected, two years in the data and both rows kept
C5_Witness ==
    /\ from_year = min_value(gdp_df)
    /\ to_year = max_value(gdp_df)
    /\ from_year < to_year
    /\ \A r \in Range(gdp_df) : Selected(r.Code)
    /\ Len(filtered_gdp_df) = 2

\* the one in-range row with a GDP of a country, when it is at to_year
OnlyRowAtToYear(code, r) ==
    /\ InRangeData(code) = {r}
    /\ r.Year = to_year
    /\ Cardinality({ i \in DOMAIN gdp_df : gdp_df[i] = r }) = 1

\* C6 as stated: a country whose only in-range row with a GDP is at to_year has
\* an available metric with growth 1.00x, whatever the GDP, zero included.
C6_Original ==
    /\ OneWidgetPerCountry
    /\ \A i \in DOMAIN metrics : \A r \in Range(gdp_df) :
         OnlyRowAtToYear(selected_countries[i], r) =>
            /\ ~IsNA(metrics[i])
            /\ metrics[i].delta = [text |-> "x", n |-> 100]

\* C6 amended: a country whose only in-range row with a GDP is at to_year, with
\* a GDP other than zero, has an available metric with growth 1.00x.
C6_SingleRecordRatioOne ==
    /\ OneWidgetPerCountry
    /\ \A i \in DOMAIN metrics : \A r \in Range(gdp_df) :
         (OnlyRowAtToYear(selected_countries[i], r) /\ r.GDP # 0) =>
            /\ ~IsNA(metrics[i])
            /\ metrics[i].delta = [text |-> "x", n |-> 100]

\* a single row at to_year, the range starting a year earlier
C6_Witness ==
    \E i \in DOMAIN metrics : \E r \in Range(gdp_df) :
        /\ OnlyRowAtToYear(selected_countries[i], r)
        /\ r.GDP = 4
        /\ from_year < to_year
        /\ metrics[i].delta = [text |-> "x", n |-> 100]

\* C7: with no country selected the frame is empty and the three sections show
\* their notice: no chart, no metric widget, no news link.
C7_EmptySelection ==
    selected_countries = <<>> =>
        /\ filtered_gdp_df = <<>>
        /\ chart_warning /\ ~chart_shown
        /\ metrics_warning /\ metrics = <<>>
        /\ news_warning /\ news_links = <<>>

\* nothing selected while the dataset has rows with a GDP in the year range
C7_Witness ==
    /\ selected_countries = <<>>
    /\ \E r \in Range(gdp_df) : InYearRange(r) /\ Present(r.GDP)
    /\ chart_warning /\ metrics_warning /\ news_warning

\* C8: every selected country gets exactly one widget, in selection order, and
\* it is the widget the loop emits for that country selected alone.
C8_IndependentOutcomes ==
    /\ OneWidgetPerCountry
    /\ \A i \in DOMAIN selected_countries :
         <<metrics[i]>> =
            MetricsLoop(gdp_df, from_year, to_year, <<selected_countries[i]>>, 1)

\* two countries selected, the first one 'n/a', the second one available
C8_Witness ==
    /\ Len(selected_countries) = 2
    /\ Len(metrics) = 2
    /\ IsNA(metrics[1])
    /\ ~IsNA(metrics[2])

\* what a run of the script on the dataset as loaded renders for the current
\* widget values
RenderedFromLoaded ==
    LET df    == get_gdp_data(csv)
        chart == ChartSection(df, from_year, to_year, selected_countries)
        mets  == MetricsSection(df, from_year, to_year, selected_countries)
        news  == NewsSection(df, selected_countries)
    IN <<chart.filtered_gdp_df, chart.chart_shown, chart.chart_warning,
         mets.metrics_warning, mets.metrics, news.news_warning, news.news_links>>

\* C9: after any interactions the cached dataset is the dataset as loaded, and
\* what is rendered is what the current widget values give on it.
C9_DatasetNeverMutated ==
    /\ gdp_df = get_gdp_data(csv)
    /\ <<filtered_gdp_df, chart_shown, chart_warning, metrics_warning, metrics,
         news_warning, news_links>> = RenderedFromLoaded

\* after an interaction, a chart whose frame lost a row with a missing GDP
C9_Witness ==
    /\ selected_countries # DefaultCountries
    /\ chart_shown
    /\ \E r \in Range(gdp_df) : ~Present(r.GDP) /\ Selected(r.Code) /\ InYearRange(r)
    /\ \E r \in Range(gdp_df) : ~Present(r.GDP)

\* C10: the metrics notice is shown exactly when no selected country has a row
\* with a GDP in the year range; when some has one but none has one at to_year,
\* every widget is 'n/a' and no notice is shown.
C10_MetricsNotice ==
    /\ metrics_warning <=>
          ~(\E i \in DOMAIN selected_countries :
                InRangeData(selected_countries[i]) # {})
    /\ ((\E i \in DOMAIN selected_countries :
             InRangeData(selected_countries[i]) # {})
        /\ (\A i \in DOMAIN selected_countries :
             AtToYear(selected_countries[i]) = {}))
       => (/\ ~metrics_warning
           /\ Len(metrics) = Len(selected_countries)
           /\ \A i \in DOMAIN metrics : IsNA(metrics[i]))

\* in-range data but nothing at to_year: widgets all 'n/a', no notice
C10_Witness ==
    /\ ~metrics_warning
    /\ metrics # <<>>
    /\ \A i \in DOMAIN metrics : IsNA(metrics[i])

====
